---- MODULE Spec2Model ----
(***************************************************************************)
(* check_diff.py: two JSON texts are decoded (json.loads) and walked in    *)
(* lock-step by the recursive function compare(path, l, r), which prints   *)
(* one line per discrepancy.                                               *)
(*                                                                         *)
(* The model has two parts.  The decoder is a pushdown machine that reads  *)
(* one JSON token of left_str / right_str per step, as json.loads does.    *)
(* compare is an explicit call stack: one frame per active call, one       *)
(* action per statement of its body.  Printed lines are records            *)
(* [kind, path] appended to out; the text that follows the path of a       *)
(* "Difference at" line (the two values) is not modelled.                  *)
(***************************************************************************)
EXTENDS Integers, Sequences, FiniteSets, TLC

VARIABLES
  pc,       \* where the script is: "decode_left", "decode_right", "compare", "done", "error"
  pos,      \* decoder: number of tokens of the current text consumed
  pstack,   \* decoder: containers opened and not yet closed
  result,   \* decoder: the decoded value, NoValue until the text's value is complete
  left,     \* the module-level name left  (line 7)
  right,    \* the module-level name right (line 8)
  stack,    \* call stack of compare, innermost frame last
  out,      \* lines printed so far
  calls,    \* history: every call of compare, in call order
  outpos,   \* history: for each line of out, the position of the node it is about
  entry     \* history: "main" when the script runs, "compare" when compare is called directly

vars == <<pc, pos, pstack, result, left, right, stack, out, calls, outpos, entry>>

(***************************************************************************)
(* Values (what json.loads returns): dict, list, str, int, bool.  One      *)
(* record shape for all of them.  A dict keeps its keys in insertion       *)
(* order (keys[i] maps to kids[i]); a list keeps its elements in kids.     *)
(* null and floats do not occur in the literals and are left out; so is    *)
(* NaN, which json.loads accepts beyond JSON and which is unequal to       *)
(* itself.                                                                 *)
(***************************************************************************)
Mk(t, n, s, keys, kids) == [t |-> t, n |-> n, s |-> s, keys |-> keys, kids |-> kids]

NoValue == Mk("none", 0, "", <<>>, <<>>)

IntV(n) == Mk("int", n, "", <<>>, <<>>)

BoolV(b) == Mk("bool", IF b THEN 1 ELSE 0, "", <<>>, <<>>)

StrV(s) == Mk("str", 0, s, <<>>, <<>>)

DictV(keys, kids) == Mk("map", 0, "", keys, kids)

ListV(kids) == Mk("seq", 0, "", <<>>, kids)

\* isinstance(v, dict)
IsDict(v) == v.t = "map"

\* isinstance(v, list)
IsList(v) == v.t = "seq"

Range(s) == {s[i] : i \in 1..Len(s)}

Min(a, b) == IF a <= b THEN a ELSE b

\* HasKey looking at the first key only
HasKeyFirst(v, k) == v.keys # <<>> /\ v.keys[1] = k

\* k in v, for a dict v
HasKey(v, k) == k \in Range(v.keys)

\* NotIn with the test of line 20 left out
NotInUnchecked(k, v) == TRUE

\* k not in v, for a dict v  (line 20)
NotIn(k, v) == ~HasKey(v, k)

\* NextKey walking the keys backwards
NextKeyReversed(v, i) == v.keys[Len(v.keys) - i]

\* the key that "for k in v" yields after i turns: dicts iterate in insertion order
NextKey(v, i) == v.keys[i + 1]

\* the value a dict v holds under k
Item(v, k) == v.kids[CHOOSE i \in 1..Len(v.keys) : v.keys[i] = k]

\* Get handing back the dict itself
GetSelf(v, k) == v

\* l[k], r[k] of line 16, for a dict v holding k
Get(v, k) == Item(v, k)

\* v[i], for a list v and a 0-based index i
At(v, i) == v.kids[i + 1]

\* len(v), for a list v
PyLen(v) == Len(v.kids)

IsNumber(v) == v.t \in {"int", "bool"}

\* PyEq with dicts equal as soon as r holds every entry of l
RECURSIVE PyEqSubset(_, _)
PyEqSubset(l, r) ==
  IF IsDict(l) /\ IsDict(r)
    THEN /\ Range(l.keys) \subseteq Range(r.keys)
         /\ \A k \in Range(l.keys) : PyEqSubset(Item(l, k), Item(r, k))
  ELSE IF IsList(l) /\ IsList(r)
    THEN /\ PyLen(l) = PyLen(r)
         /\ \A i \in 0..(PyLen(l) - 1) : PyEqSubset(At(l, i), At(r, i))
  ELSE IF IsNumber(l) /\ IsNumber(r)
    THEN l.n = r.n
  ELSE l.t = r.t /\ l.s = r.s

\* l == r as Python evaluates it on decoded JSON: dicts compare as key -> value
\* maps whatever the insertion order, lists element by element, bool is a
\* subtype of int (True == 1), and values of different kinds are unequal.
RECURSIVE PyEq(_, _)
PyEq(l, r) ==
  IF IsDict(l) /\ IsDict(r)
    THEN /\ Range(l.keys) = Range(r.keys)
         /\ \A k \in Range(l.keys) : PyEq(Item(l, k), Item(r, k))
  ELSE IF IsList(l) /\ IsList(r)
    THEN /\ PyLen(l) = PyLen(r)
         /\ \A i \in 0..(PyLen(l) - 1) : PyEq(At(l, i), At(r, i))
  ELSE IF IsNumber(l) /\ IsNumber(r)
    THEN l.n = r.n
  ELSE l.t = r.t /\ l.s = r.s

\* Unequal reporting only where compare does not recurse
UnequalLeaves(l, r) ==
  /\ ~PyEq(l, r)
  /\ ~(IsDict(l) /\ IsDict(r))
  /\ ~(IsList(l) /\ IsList(r))

\* l != r  (line 11)
Unequal(l, r) == ~PyEq(l, r)

\* f"{path}.{k}"  (lines 16, 18, 21)
KeyPath(path, k) == path \o "." \o k

\* IdxPath without the index
IdxPathNoIndex(path, i) == path \o "[]"

\* f"{path}[{i}]"  (line 26)
IdxPath(path, i) == path \o "[" \o ToString(i) \o "]"

\* range(min(len(l), len(r)))  (line 25), as the number of indices
Overlap(l, r) == Min(PyLen(l), PyLen(r))

\* LenDiffers seeing only a longer left list
LenLonger(l, r) == PyLen(l) > PyLen(r)

\* len(l) != len(r)  (line 23)
LenDiffers(l, r) == PyLen(l) # PyLen(r)

(***************************************************************************)
(* The two literals of lines 3 and 5, as the JSON tokens they consist of   *)
(* (white space between tokens dropped).  None of their strings holds an   *)
(* escape; the only literal that is not a string is true.                  *)
(***************************************************************************)
\* a punctuation token: one of { } [ ] : ,
P(c) == [k |-> c, v |-> NoValue]

\* a string token
S(s) == [k |-> "str", v |-> StrV(s)]

\* the token true
T == [k |-> "lit", v |-> BoolV(TRUE)]

left_str ==
  <<
    P("{"), S("components"), P(":"), P("{"), S("schemas"), P(":"), P("{"), S("ErrorBodySchema"),
    P(":"), P("{"), S("properties"), P(":"), P("{"), S("error_type"), P(":"), P("{"), S("type"),
    P(":"), S("string"), P("}"), P(","), S("fields"), P(":"), P("{"), S("items"), P(":"),
    P("{"), S(""), P(":"), S("#/components/schemas/FieldErrorSchema"), P("}"), P(","),
    S("type"), P(":"), P("["), S("array"), P(","), S("null"), P("]"), P("}"), P(","),
    S("message"), P(":"), P("{"), S("type"), P(":"), S("string"), P("}"), P("}"), P(","),
    S("required"), P(":"), P("["), S("error_type"), P(","), S("message"), P("]"), P(","),
    S("type"), P(":"), S("object"), P("}"), P(","), S("ErrorSchema"), P(":"), P("{"),
    S("properties"), P(":"), P("{"), S("error"), P(":"), P("{"), S(""), P(":"),
    S("#/components/schemas/ErrorBodySchema"), P("}"), P(","), S("request_id"), P(":"), P("{"),
    S("type"), P(":"), P("["), S("string"), P(","), S("null"), P("]"), P("}"), P("}"), P(","),
    S("required"), P(":"), P("["), S("error"), P("]"), P(","), S("type"), P(":"), S("object"),
    P("}"), P(","), S("FieldErrorSchema"), P(":"), P("{"), S("properties"), P(":"), P("{"),
    S("code"), P(":"), P("{"), S("type"), P(":"), S("string"), P("}"), P(","), S("field"),
    P(":"), P("{"), S("type"), P(":"), S("string"), P("}"), P(","), S("message"), P(":"),
    P("{"), S("type"), P(":"), S("string"), P("}"), P("}"), P(","), S("required"), P(":"),
    P("["), S("field"), P(","), S("code"), P(","), S("message"), P("]"), P(","), S("type"),
    P(":"), S("object"), P("}"), P(","), S("SnapshotUser"), P(":"), P("{"), S("properties"),
    P(":"), P("{"), S("id"), P(":"), P("{"), S("format"), P(":"), S("int64"), P(","), S("type"),
    P(":"), S("integer"), P("}"), P(","), S("username"), P(":"), P("{"), S("type"), P(":"),
    S("string"), P("}"), P("}"), P(","), S("required"), P(":"), P("["), S("id"), P(","),
    S("username"), P("]"), P(","), S("type"), P(":"), S("object"), P("}"), P(","),
    S("ValidationErrorBodySchema"), P(":"), P("{"), S("properties"), P(":"), P("{"),
    S("error_type"), P(":"), P("{"), S("type"), P(":"), S("string"), P("}"), P(","),
    S("fields"), P(":"), P("{"), S("items"), P(":"), P("{"), S(""), P(":"),
    S("#/components/schemas/FieldErrorSchema"), P("}"), P(","), S("type"), P(":"), S("array"),
    P("}"), P(","), S("message"), P(":"), P("{"), S("type"), P(":"), S("string"), P("}"),
    P("}"), P(","), S("required"), P(":"), P("["), S("error_type"), P(","), S("message"),
    P(","), S("fields"), P("]"), P(","), S("type"), P(":"), S("object"), P("}"), P(","),
    S("ValidationErrorSchema"), P(":"), P("{"), S("properties"), P(":"), P("{"), S("error"),
    P(":"), P("{"), S(""), P(":"), S("#/components/schemas/ValidationErrorBodySchema"), P("}"),
    P("}"), P(","), S("required"), P(":"), P("["), S("error"), P("]"), P(","), S("type"),
    P(":"), S("object"), P("}"), P("}"), P(","), S("info"), P(":"), P("{"), S("description"),
    P(":"), S("Test Description"), P(","), S("title"), P(":"), S("Snapshot API"), P(","),
    S("version"), P(":"), S("1.0.0"), P("}"), P(","), S("jsonSchemaDialect"), P(":"),
    S("https://json-schema.org/draft/2020-12/schema"), P(","), S("openapi"), P(":"), S("3.1.0"),
    P(","), S("paths"), P(":"), P("{"), S("/users"), P(":"), P("{"), S("get"), P(":"), P("{"),
    S("responses"), P(":"), P("{"), S("200"), P(":"), P("{"), S("content"), P(":"), P("{"),
    S("text/plain"), P(":"), P("{"), S("schema"), P(":"), P("{"), S("type"), P(":"),
    S("string"), P("}"), P("}"), P("}"), P(","), S("description"), P(":"),
    S("Successful response"), P("}"), P("}"), P("}"), P("}"), P(","), S("/users/{id}"), P(":"),
    P("{"), S("get"), P(":"), P("{"), S("parameters"), P(":"), P("["), P("{"), S("in"), P(":"),
    S("path"), P(","), S("name"), P(":"), S("id"), P(","), S("required"), P(":"), T, P(","),
    S("schema"), P(":"), P("{"), S("type"), P(":"), S("string"), P("}"), P("}"), P("]"), P(","),
    S("responses"), P(":"), P("{"), S("200"), P(":"), P("{"), S("content"), P(":"), P("{"),
    S("text/plain"), P(":"), P("{"), S("schema"), P(":"), P("{"), S("type"), P(":"),
    S("string"), P("}"), P("}"), P("}"), P(","), S("description"), P(":"),
    S("Successful response"), P("}"), P("}"), P("}"), P("}"), P("}"), P("}")
  >>

right_str ==
  <<
    P("{"), S("components"), P(":"), P("{"), S("schemas"), P(":"), P("{"), S("ErrorBodySchema"),
    P(":"), P("{"), S("properties"), P(":"), P("{"), S("error_type"), P(":"), P("{"), S("type"),
    P(":"), S("string"), P("}"), P(","), S("fields"), P(":"), P("{"), S("items"), P(":"),
    P("{"), S(""), P(":"), S("#/components/schemas/FieldErrorSchema"), P("}"), P(","),
    S("type"), P(":"), P("["), S("array"), P(","), S("null"), P("]"), P("}"), P(","),
    S("message"), P(":"), P("{"), S("type"), P(":"), S("string"), P("}"), P("}"), P(","),
    S("required"), P(":"), P("["), S("error_type"), P(","), S("message"), P("]"), P(","),
    S("type"), P(":"), S("object"), P("}"), P(","), S("ErrorSchema"), P(":"), P("{"),
    S("properties"), P(":"), P("{"), S("error"), P(":"), P("{"), S(""), P(":"),
    S("#/components/schemas/ErrorBodySchema"), P("}"), P(","), S("request_id"), P(":"), P("{"),
    S("type"), P(":"), P("["), S("string"), P(","), S("null"), P("]"), P("}"), P("}"), P(","),
    S("required"), P(":"), P("["), S("error"), P("]"), P(","), S("type"), P(":"), S("object"),
    P("}"), P(","), S("FieldErrorSchema"), P(":"), P("{"), S("properties"), P(":"), P("{"),
    S("code"), P(":"), P("{"), S("type"), P(":"), S("string"), P("}"), P(","), S("field"),
    P(":"), P("{"), S("type"), P(":"), S("string"), P("}"), P(","), S("message"), P(":"),
    P("{"), S("type"), P(":"), S("string"), P("}"), P("}"), P(","), S("required"), P(":"),
    P("["), S("field"), P(","), S("code"), P(","), S("message"), P("]"), P(","), S("type"),
    P(":"), S("object"), P("}"), P(","), S("SnapshotUser"), P(":"), P("{"), S("properties"),
    P(":"), P("{"), S("id"), P(":"), P("{"), S("format"), P(":"), S("int64"), P(","), S("type"),
    P(":"), S("integer"), P("}"), P(","), S("username"), P(":"), P("{"), S("type"), P(":"),
    S("string"), P("}"), P("}"), P(","), S("required"), P(":"), P("["), S("id"), P(","),
    S("username"), P("]"), P(","), S("type"), P(":"), S("object"), P("}"), P(","),
    S("ValidationErrorBodySchema"), P(":"), P("{"), S("properties"), P(":"), P("{"),
    S("error_type"), P(":"), P("{"), S("type"), P(":"), S("string"), P("}"), P(","),
    S("fields"), P(":"), P("{"), S("items"), P(":"), P("{"), S(""), P(":"),
    S("#/components/schemas/FieldErrorSchema"), P("}"), P(","), S("type"), P(":"), S("string"),
    P("}"), P(","), S("message"), P(":"), P("{"), S("type"), P(":"), S("string"), P("}"),
    P("}"), P(","), S("required"), P(":"), P("["), S("error_type"), P(","), S("message"),
    P(","), S("fields"), P("]"), P(","), S("type"), P(":"), S("object"), P("}"), P(","),
    S("ValidationErrorSchema"), P(":"), P("{"), S("properties"), P(":"), P("{"), S("error"),
    P(":"), P("{"), S(""), P(":"), S("#/components/schemas/ValidationErrorBodySchema"), P("}"),
    P("}"), P(","), S("required"), P(":"), P("["), S("error"), P("]"), P(","), S("type"),
    P(":"), S("object"), P("}"), P("}"), P(","), S("info"), P(":"), P("{"), S("description"),
    P(":"), S("Test Description"), P(","), S("title"), P(":"), S("Snapshot API"), P(","),
    S("version"), P(":"), S("1.0.0"), P("}"), P(","), S("jsonSchemaDialect"), P(":"),
    S("https://json-schema.org/draft/2020-12/schema"), P(","), S("openapi"), P(":"), S("3.1.0"),
    P(","), S("paths"), P(":"), P("{"), S("/users"), P(":"), P("{"), S("get"), P(":"), P("{"),
    S("responses"), P(":"), P("{"), S("200"), P(":"), P("{"), S("content"), P(":"), P("{"),
    S("text/plain"), P(":"), P("{"), S("schema"), P(":"), P("{"), S("type"), P(":"),
    S("string"), P("}"), P("}"), P("}"), P(","), S("description"), P(":"),
    S("Successful response"), P("}"), P("}"), P("}"), P("}"), P(","), S("/users/{id}"), P(":"),
    P("{"), S("get"), P(":"), P("{"), S("parameters"), P(":"), P("["), P("{"), S("in"), P(":"),
    S("path"), P(","), S("name"), P(":"), S("id"), P(","), S("required"), P(":"), T, P(","),
    S("schema"), P(":"), P("{"), S("type"), P(":"), S("string"), P("}"), P("}"), P("]"), P(","),
    S("responses"), P(":"), P("{"), S("200"), P(":"), P("{"), S("content"), P(":"), P("{"),
    S("text/plain"), P(":"), P("{"), S("schema"), P(":"), P("{"), S("type"), P(":"),
    S("string"), P("}"), P("}"), P("}"), P(","), S("description"), P(":"),
    S("Successful response"), P("}"), P("}"), P("}"), P("}"), P("}"), P("}")
  >>

(***************************************************************************)
(* json.loads (lines 7 and 8).  The decoder reads one token per step.      *)
(* pstack holds a builder for every container opened and not yet closed:   *)
(*   st = "open"   just after { or [                                       *)
(*   st = "key"    in a dict after a comma: a key must follow              *)
(*   st = "colon"  in a dict after a key                                   *)
(*   st = "val"    a value must follow                                     *)
(*   st = "delim"  after a value: a comma or the closing bracket follows   *)
(* A token that cannot follow, or the text ending inside a container,      *)
(* raises json.JSONDecodeError, which nothing catches: the script ends.    *)
(***************************************************************************)
Builder(t) == [t |-> t, keys |-> <<>>, kids |-> <<>>, key |-> "", st |-> "open"]

Top(s) == s[Len(s)]

Front(s) == SubSeq(s, 1, Len(s) - 1)

SetTop(s, f) == [s EXCEPT ![Len(s)] = f]

Failed == [ok |-> FALSE, pstack |-> <<>>, result |-> NoValue]

\* d[k] = v on the dict under construction: a repeated key keeps its place
\* and takes the later value
PutKey(b, k, v) ==
  IF k \in Range(b.keys)
    THEN LET i == CHOOSE j \in 1..Len(b.keys) : b.keys[j] = k
         IN  [b EXCEPT !.kids[i] = v, !.st = "delim"]
    ELSE [b EXCEPT !.keys = Append(@, k), !.kids = Append(@, v), !.st = "delim"]

\* a complete value v goes to the innermost open container, or is the result
Deliver(ps, v) ==
  IF ps = <<>>
    THEN [ok |-> TRUE, pstack |-> <<>>, result |-> v]
    ELSE LET b == Top(ps)
         IN  [ok |-> TRUE,
              pstack |-> SetTop(ps, IF b.t = "map"
                                      THEN PutKey(b, b.key, v)
                                      ELSE [b EXCEPT !.kids = Append(@, v), !.st = "delim"]),
              result |-> NoValue]

\* } or ] closes the innermost container
Close(ps) ==
  LET b == Top(ps)
  IN  Deliver(Front(ps), IF b.t = "map" THEN DictV(b.keys, b.kids) ELSE ListV(b.kids))

\* a value starts at tok (scan_once)
StartValue(ps, tok) ==
  IF tok.k = "{" THEN [ok |-> TRUE, pstack |-> Append(ps, Builder("map")), result |-> NoValue]
  ELSE IF tok.k = "[" THEN [ok |-> TRUE, pstack |-> Append(ps, Builder("seq")), result |-> NoValue]
  ELSE IF tok.k \in {"str", "lit"} THEN Deliver(ps, tok.v)
  ELSE Failed

Moved(ps, b) == [ok |-> TRUE, pstack |-> SetTop(ps, b), result |-> NoValue]

\* the decoder's step on token tok
ScanStep(ps, res, tok) ==
  IF ps = <<>>
    THEN IF res # NoValue THEN Failed ELSE StartValue(ps, tok)
    ELSE LET b == Top(ps)
         IN  IF b.t = "map"
               THEN CASE b.st = "open" ->
                           IF tok.k = "}" THEN Close(ps)
                           ELSE IF tok.k = "str"
                             THEN Moved(ps, [b EXCEPT !.key = tok.v.s, !.st = "colon"])
                           ELSE Failed
                      [] b.st = "key" ->
                           IF tok.k = "str"
                             THEN Moved(ps, [b EXCEPT !.key = tok.v.s, !.st = "colon"])
                             ELSE Failed
                      [] b.st = "colon" ->
                           IF tok.k = ":" THEN Moved(ps, [b EXCEPT !.st = "val"]) ELSE Failed
                      [] b.st = "val" -> StartValue(ps, tok)
                      [] b.st = "delim" ->
                           IF tok.k = "}" THEN Close(ps)
                           ELSE IF tok.k = "," THEN Moved(ps, [b EXCEPT !.st = "key"])
                           ELSE Failed
               ELSE CASE b.st = "open" ->
                           IF tok.k = "]" THEN Close(ps) ELSE StartValue(ps, tok)
                      [] b.st = "val" -> StartValue(ps, tok)
                      [] b.st = "delim" ->
                           IF tok.k = "]" THEN Close(ps)
                           ELSE IF tok.k = "," THEN Moved(ps, [b EXCEPT !.st = "val"])
                           ELSE Failed

\* the text being decoded
Text == IF pc = "decode_left" THEN left_str ELSE right_str

Decoding == pc \in {"decode_left", "decode_right"}

(***************************************************************************)
(* compare (lines 10-26).  A frame is one active call: its arguments, the  *)
(* statement it is at, and the loop index.  at is the position of the      *)
(* node in the compared structure (the keys and indices from the root),    *)
(* kept for the properties below; the code does not have it.               *)
(*   pc = "test"   line 11       pc = "keysL"  loop of line 14             *)
(*   pc = "keysR"  loop of line 19              pc = "len"    line 23      *)
(*   pc = "elems"  loop of line 25              pc = "ret"    return       *)
(***************************************************************************)
Frame(path, l, r, at) ==
  [path |-> path, l |-> l, r |-> r, pc |-> "test", i |-> 0, at |-> at]

Call(path, l, r, at, n) == [path |-> path, l |-> l, r |-> r, at |-> at, n |-> n]

KeyStep(k) == [key |-> k, idx |-> -1]

IdxStep(i) == [key |-> "", idx |-> i]

Rec(kind, path) == [kind |-> kind, path |-> path]

Difference == "Difference at"

MissingRight == "Missing key in right"

MissingLeft == "Missing key in left"

LengthMismatch == "Length mismatch at"

\* Dispatch with "or" for the "and" of lines 13 and 22
DispatchEither(l, r) ==
  IF IsDict(l) \/ IsDict(r) THEN "keysL"
  ELSE IF IsList(l) \/ IsList(r) THEN "len"
  ELSE "ret"

\* which statement follows the test of line 11 (lines 13 and 22)
Dispatch(l, r) ==
  IF IsDict(l) /\ IsDict(r) THEN "keysL"
  ELSE IF IsList(l) /\ IsList(r) THEN "len"
  ELSE "ret"

(***************************************************************************)
(* The arguments compare is called with when it is checked on its own:     *)
(* every pair of values of at most MaxNodes nodes each and MaxPair nodes   *)
(* together, over Scalars and Keys.  True is there because True == 1 in    *)
(* Python; the key "a.a" because it holds the separator that compare puts  *)
(* between a path and a key.                                               *)
(***************************************************************************)
MaxNodes == 3

MaxPair == 6

Scalars == {IntV(1), IntV(2), BoolV(TRUE)}

Keys == {"a", "a.a"}

StartPaths == {"root"}

\* the duplicate-free sequences of m keys
KeySeqs(m) == {s \in [1..m -> Keys] : \A i, j \in 1..m : s[i] = s[j] => i = j}

RECURSIVE Sized(_), KidSeqs(_, _)
\* the values of exactly n nodes
Sized(n) ==
  IF n = 1
    THEN Scalars \cup {DictV(<<>>, <<>>), ListV(<<>>)}
    ELSE UNION {{ListV(ks) : ks \in KidSeqs(n - 1, m)}
                  \cup {DictV(keys, ks) : keys \in KeySeqs(m), ks \in KidSeqs(n - 1, m)}
                : m \in 1..(n - 1)}

\* the sequences of m values of total nodes in all
KidSeqs(total, m) ==
  IF m = 0
    THEN IF total = 0 THEN {<<>>} ELSE {}
    ELSE UNION {{<<v>> \o rest : v \in Sized(a), rest \in KidSeqs(total - a, m - 1)}
                : a \in 1..(total - m + 1)}

Values == UNION {Sized(n) : n \in 1..MaxNodes}

RECURSIVE SumSizes(_, _)
\* the number of nodes of the first m of kids
SumSizes(kids, m) ==
  IF m = 0 THEN 0
  ELSE SumSizes(kids, m - 1) + 1 + SumSizes(kids[m].kids, Len(kids[m].kids))

\* the number of nodes of v
Size(v) == 1 + SumSizes(v.kids, Len(v.kids))

(***************************************************************************)
(* The state machine.                                                      *)
(***************************************************************************)
\* the script, from its first statement
InitMain ==
  /\ entry = "main"
  /\ pc = "decode_left"
  /\ pos = 0
  /\ pstack = <<>>
  /\ result = NoValue
  /\ left = NoValue
  /\ right = NoValue
  /\ stack = <<>>
  /\ out = <<>>
  /\ calls = <<>>
  /\ outpos = <<>>

\* compare called directly with a start path and two values
InitCall ==
  /\ entry = "compare"
  /\ pc = "compare"
  /\ pos = 0
  /\ pstack = <<>>
  /\ result = NoValue
  /\ left \in Values
  /\ right \in Values
  /\ Size(left) + Size(right) <= MaxPair
  /\ \E p \in StartPaths :
       /\ stack = <<Frame(p, left, right, <<>>)>>
       /\ calls = <<Call(p, left, right, <<>>, 0)>>
  /\ out = <<>>
  /\ outpos = <<>>

Init == InitMain \/ InitCall

\* json.loads reads the next token (lines 7, 8)
Scan ==
  /\ Decoding
  /\ pos < Len(Text)
  /\ LET s == ScanStep(pstack, result, Text[pos + 1])
     IN  IF s.ok
           THEN /\ pos' = pos + 1
                /\ pstack' = s.pstack
                /\ result' = s.result
                /\ pc' = pc
           ELSE /\ pc' = "error"
                /\ UNCHANGED <<pos, pstack, result>>
  /\ UNCHANGED <<entry, left, right, stack, out, calls, outpos>>

\* json.loads reaches the end of the text: it raises if a container is
\* still open or no value was read; else line 7 binds left, line 8 binds
\* right and line 28 calls compare("root", left, right)
Finish ==
  /\ Decoding
  /\ pos = Len(Text)
  /\ IF pstack # <<>> \/ result = NoValue
       THEN /\ pc' = "error"
            /\ UNCHANGED <<pos, pstack, result, left, right, stack, calls>>
     ELSE IF pc = "decode_left"
       THEN /\ left' = result
            /\ pc' = "decode_right"
            /\ pos' = 0
            /\ result' = NoValue
            /\ UNCHANGED <<pstack, right, stack, calls>>
     ELSE /\ right' = result
          /\ pc' = "compare"
          /\ stack' = <<Frame("root", left, result, <<>>)>>
          /\ calls' = <<Call("root", left, result, <<>>, 0)>>
          /\ UNCHANGED <<pos, pstack, result, left>>
  /\ UNCHANGED <<entry, out, outpos>>

Running == pc = "compare" /\ stack # <<>>

\* lines 11-13, 22: print the difference if l != r, then branch on the types
Test ==
  /\ Running
  /\ LET f == Top(stack)
     IN  /\ f.pc = "test"
         /\ IF Unequal(f.l, f.r)
              THEN /\ out' = Append(out, Rec(Difference, f.path))
                   /\ outpos' = Append(outpos, f.at)
              ELSE UNCHANGED <<out, outpos>>
         /\ stack' = SetTop(stack, [f EXCEPT !.pc = Dispatch(f.l, f.r)])
  /\ UNCHANGED <<entry, pc, pos, pstack, result, left, right, calls>>

\* lines 14-18: one turn of "for k in l", or its end
LeftKeys ==
  /\ Running
  /\ LET f == Top(stack)
     IN  /\ f.pc = "keysL"
         /\ IF f.i < Len(f.l.keys)
              THEN LET k == NextKey(f.l, f.i)
                       g == [f EXCEPT !.i = @ + 1]
                       at == Append(f.at, KeyStep(k))
                   IN  IF HasKey(f.r, k)
                         THEN /\ stack' = Append(SetTop(stack, g),
                                            Frame(KeyPath(f.path, k), Get(f.l, k), Get(f.r, k), at))
                              /\ calls' = Append(calls,
                                            Call(KeyPath(f.path, k), Get(f.l, k), Get(f.r, k), at,
                                                 Len(out)))
                              /\ UNCHANGED <<out, outpos>>
                         ELSE /\ out' = Append(out, Rec(MissingRight, KeyPath(f.path, k)))
                              /\ outpos' = Append(outpos, at)
                              /\ stack' = SetTop(stack, g)
                              /\ UNCHANGED calls
              ELSE /\ stack' = SetTop(stack, [f EXCEPT !.pc = "keysR", !.i = 0])
                   /\ UNCHANGED <<out, outpos, calls>>
  /\ UNCHANGED <<entry, pc, pos, pstack, result, left, right>>

\* lines 19-21: one turn of "for k in r", or its end
RightKeys ==
  /\ Running
  /\ LET f == Top(stack)
     IN  /\ f.pc = "keysR"
         /\ IF f.i < Len(f.r.keys)
              THEN LET k == NextKey(f.r, f.i)
                   IN  /\ IF NotIn(k, f.l)
                            THEN /\ out' = Append(out, Rec(MissingLeft, KeyPath(f.path, k)))
                                 /\ outpos' = Append(outpos, Append(f.at, KeyStep(k)))
                            ELSE UNCHANGED <<out, outpos>>
                       /\ stack' = SetTop(stack, [f EXCEPT !.i = @ + 1])
              ELSE /\ stack' = SetTop(stack, [f EXCEPT !.pc = "ret"])
                   /\ UNCHANGED <<out, outpos>>
  /\ UNCHANGED <<entry, pc, pos, pstack, result, left, right, calls>>

\* lines 23-24: print the length mismatch, if any
LenCheck ==
  /\ Running
  /\ LET f == Top(stack)
     IN  /\ f.pc = "len"
         /\ IF LenDiffers(f.l, f.r)
              THEN /\ out' = Append(out, Rec(LengthMismatch, f.path))
                   /\ outpos' = Append(outpos, f.at)
              ELSE UNCHANGED <<out, outpos>>
         /\ stack' = SetTop(stack, [f EXCEPT !.pc = "elems", !.i = 0])
  /\ UNCHANGED <<entry, pc, pos, pstack, result, left, right, calls>>

\* lines 25-26: one turn of "for i in range(min(len(l), len(r)))", or its end
Elems ==
  /\ Running
  /\ LET f == Top(stack)
     IN  /\ f.pc = "elems"
         /\ IF f.i < Overlap(f.l, f.r)
              THEN LET at == Append(f.at, IdxStep(f.i))
                   IN  /\ stack' = Append(SetTop(stack, [f EXCEPT !.i = @ + 1]),
                                     Frame(IdxPath(f.path, f.i), At(f.l, f.i), At(f.r, f.i), at))
                       /\ calls' = Append(calls,
                                     Call(IdxPath(f.path, f.i), At(f.l, f.i), At(f.r, f.i), at,
                                          Len(out)))
              ELSE /\ stack' = SetTop(stack, [f EXCEPT !.pc = "ret"])
                   /\ UNCHANGED calls
  /\ UNCHANGED <<entry, pc, pos, pstack, result, left, right, out, outpos>>

\* the call returns; when the outermost call returns the script is over
Return ==
  /\ Running
  /\ Top(stack).pc = "ret"
  /\ stack' = Front(stack)
  /\ pc' = IF Len(stack) = 1 THEN "done" ELSE pc
  /\ UNCHANGED <<entry, pos, pstack, result, left, right, out, calls, outpos>>

Next == Scan \/ Finish \/ Test \/ LeftKeys \/ RightKeys \/ LenCheck \/ Elems \/ Return

Spec == Init /\ [][Next]_vars

\* the interpreter runs the one thread until the script ends
LiveSpec == Spec /\ WF_vars(Next)

Terminated == pc \in {"done", "error"}

(***************************************************************************)
(* Vocabulary of the properties.                                           *)
(***************************************************************************)
\* compare, called directly, has returned
CallDone == entry = "compare" /\ pc = "done"

Recs == 1..Len(out)

Calls == 1..Len(calls)

KeysOf(v) == Range(v.keys)

BothDicts(l, r) == IsDict(l) /\ IsDict(r)

BothLists(l, r) == IsList(l) /\ IsList(r)

IsPrefix(a, b) == Len(a) <= Len(b) /\ SubSeq(b, 1, Len(a)) = a

StrictPrefix(a, b) == Len(a) < Len(b) /\ IsPrefix(a, b)

\* line j is about a node strictly below the node at position at
Under(at, j) == StrictPrefix(at, outpos[j])

\* the child of the node at position at that line j (under it) is in or about
StepOf(at, j) == outpos[j][Len(at) + 1]

KeyIndex(v, k) == CHOOSE i \in 1..Len(v.keys) : v.keys[i] = k

\* the lines of one kind about the node at position at
LinesAt(kind, at) == {j \in Recs : out[j].kind = kind /\ outpos[j] = at}

MissingAt(at) == LinesAt(MissingRight, at) \cup LinesAt(MissingLeft, at)

VisitsOf(at) == {n \in Calls : calls[n].at = at}

RECURSIVE Depth(_)
Depth(v) ==
  IF v.kids = <<>> THEN 1
  ELSE 1 + (CHOOSE d \in {Depth(v.kids[i]) : i \in 1..Len(v.kids)} :
              \A i \in 1..Len(v.kids) : Depth(v.kids[i]) <= d)

FieldsPath == "root.components.schemas.ValidationErrorBodySchema.properties.fields"

(***************************************************************************)
(* C1.  Running the script on its two literals prints exactly two lines:   *)
(* a value mismatch at the fields node of ValidationErrorBodySchema and a  *)
(* value mismatch at its type, and no missing-key or length-mismatch line. *)
(***************************************************************************)
C1_TwoRecords ==
  (entry = "main" /\ Terminated) =>
    /\ Len(out) = 2
    /\ Range(out) = {Rec(Difference, FieldsPath), Rec(Difference, KeyPath(FieldsPath, "type"))}

\* what the script does instead: the decoder raises at the end of left_str,
\* where the outermost object is still open, and nothing is printed
ScriptFails == (entry = "main" /\ Terminated) => (pc = "error" /\ left = NoValue /\ out = <<>>)

(***************************************************************************)
(* C2.  Reflexivity: compare(p, v, v) prints nothing, at any point of the  *)
(* walk, whatever the value v.                                             *)
(***************************************************************************)
C2_Reflexive == (entry = "compare" /\ left = right) => out = <<>>

\* a nested value was compared with itself, to the end
C2_Witness ==
  /\ CallDone
  /\ left = right
  /\ Depth(left) >= 3
  /\ Len(calls) >= 3
  /\ out = <<>>

\* what C3 asks of one call c
C3_At(c) ==
  \A k \in KeysOf(c.l) \cup KeysOf(c.r) :
    LET at == Append(c.at, KeyStep(k))
    IN  IF k \in KeysOf(c.l) /\ k \in KeysOf(c.r)
          THEN /\ MissingAt(at) = {}
               /\ Cardinality(VisitsOf(at)) = 1
               /\ \A n \in VisitsOf(at) :
                    calls[n] = Call(KeyPath(c.path, k), Get(c.l, k), Get(c.r, k), at, calls[n].n)
        ELSE IF k \in KeysOf(c.l)
          THEN /\ VisitsOf(at) = {}
               /\ Cardinality(MissingAt(at)) = 1
               /\ \A j \in MissingAt(at) : out[j] = Rec(MissingRight, KeyPath(c.path, k))
        ELSE /\ VisitsOf(at) = {}
             /\ Cardinality(MissingAt(at)) = 1
             /\ \A j \in MissingAt(at) : out[j] = Rec(MissingLeft, KeyPath(c.path, k))

(***************************************************************************)
(* C3.  For two dicts l and r compared at path p: one "Missing key in      *)
(* right: p.k" line for each key k of l that r lacks, one "Missing key in  *)
(* left: p.k" line for each key k of r that l lacks, no missing-key line   *)
(* at this level for a key both hold, and exactly one recursive call,      *)
(* compare(p.k, l[k], r[k]), for each key both hold (none for the others). *)
(***************************************************************************)
C3_MissingKeys ==
  CallDone => \A n \in Calls : BothDicts(calls[n].l, calls[n].r) => C3_At(calls[n])

\* two dicts, each with a key the other lacks, were compared
C3_Witness ==
  /\ CallDone
  /\ BothDicts(left, right)
  /\ KeysOf(left) \ KeysOf(right) # {}
  /\ KeysOf(right) \ KeysOf(left) # {}
  /\ \E i, j \in Recs : out[i].kind = MissingRight /\ out[j].kind = MissingLeft

\* what C4 asks of one call c
C4_At(c) ==
  /\ Cardinality(LinesAt(LengthMismatch, c.at)) = IF PyLen(c.l) # PyLen(c.r) THEN 1 ELSE 0
  /\ \A j \in LinesAt(LengthMismatch, c.at) : out[j].path = c.path
  /\ \A i \in 0..(Min(PyLen(c.l), PyLen(c.r)) - 1) :
       LET at == Append(c.at, IdxStep(i))
       IN  /\ Cardinality(VisitsOf(at)) = 1
           /\ \A n \in VisitsOf(at) :
                calls[n] = Call(IdxPath(c.path, i), At(c.l, i), At(c.r, i), at, calls[n].n)
  /\ \A j \in Recs : Under(c.at, j) => StepOf(c.at, j).idx < Min(PyLen(c.l), PyLen(c.r))
  /\ \A n \in Calls :
       StrictPrefix(c.at, calls[n].at) =>
         calls[n].at[Len(c.at) + 1].idx < Min(PyLen(c.l), PyLen(c.r))

(***************************************************************************)
(* C4.  For two lists l and r compared at path p: one "Length mismatch at  *)
(* p" line if len(l) != len(r) and none if the lengths agree; either way   *)
(* one recursive call compare(p[i], l[i], r[i]) for every index i below    *)
(* min(len(l), len(r)), and no call and no line for an index from          *)
(* min(len(l), len(r)) on.                                                 *)
(***************************************************************************)
C4_LengthMismatch ==
  CallDone => \A n \in Calls : BothLists(calls[n].l, calls[n].r) => C4_At(calls[n])

\* lists of different lengths whose common prefix differs were compared
C4_Witness ==
  /\ CallDone
  /\ BothLists(left, right)
  /\ PyLen(left) # PyLen(right)
  /\ Min(PyLen(left), PyLen(right)) >= 1
  /\ LinesAt(LengthMismatch, <<>>) # {}
  /\ \E j \in Recs : Under(<<>>, j)

(***************************************************************************)
(* C5.  Aggregate plus detail: every call whose two values are unequal     *)
(* prints a value mismatch at its own path, containers included; so a      *)
(* value mismatch at a nested node comes with one at every ancestor of     *)
(* that node, up to the start path.                                        *)
(***************************************************************************)
C5_AggregateAndDetail ==
  /\ CallDone =>
       \A n \in Calls :
         Unequal(calls[n].l, calls[n].r) =>
           \E j \in LinesAt(Difference, calls[n].at) : out[j].path = calls[n].path
  /\ entry = "compare" =>
       \A j \in Recs :
         out[j].kind = Difference =>
           \A d \in 0..(Len(outpos[j]) - 1) :
             LinesAt(Difference, SubSeq(outpos[j], 1, d)) # {}

\* a value mismatch two levels down, in dicts
C5_Witness ==
  /\ CallDone
  /\ \E j \in Recs :
       /\ out[j].kind = Difference
       /\ Len(outpos[j]) = 2
       /\ outpos[j][1].idx = -1
       /\ outpos[j][2].idx = -1

(***************************************************************************)
(* C6.  When l and r are neither two dicts nor two lists, compare(p, l, r) *)
(* makes no recursive call and prints one value mismatch at p if l != r,   *)
(* nothing if l == r; never a missing-key or length-mismatch line.         *)
(***************************************************************************)
C6_NoRecursion ==
  (entry = "compare" /\ ~BothDicts(left, right) /\ ~BothLists(left, right)) =>
    /\ Len(calls) = 1
    /\ Len(stack) <= 1
    /\ \A j \in Recs : out[j] = Rec(Difference, calls[1].path)
    /\ Len(out) <= 1
    /\ pc = "done" => Len(out) = IF PyEq(left, right) THEN 0 ELSE 1

\* a dict was compared with a list
C6_Witness ==
  /\ CallDone
  /\ IsDict(left)
  /\ left.keys # <<>>
  /\ IsList(right)
  /\ right.kids # <<>>
  /\ out = <<Rec(Difference, calls[1].path)>>

\* the "Missing key in left" lines of the dict at position at
MissingLeftOf(at) ==
  {j \in Recs : /\ out[j].kind = MissingLeft
                /\ Under(at, j)
                /\ Len(outpos[j]) = Len(at) + 1}

\* what C7 asks of one call c
C7_At(c) ==
  /\ \A j0 \in LinesAt(Difference, c.at) :
       \A j \in Recs : (Under(c.at, j) \/ j \in LinesAt(LengthMismatch, c.at)) => j0 < j
  /\ \A jl \in LinesAt(LengthMismatch, c.at) : \A j \in Recs : Under(c.at, j) => jl < j
  /\ BothLists(c.l, c.r) =>
       \A j1, j2 \in Recs :
         (Under(c.at, j1) /\ Under(c.at, j2) /\ StepOf(c.at, j1).idx < StepOf(c.at, j2).idx)
           => j1 < j2
  /\ BothDicts(c.l, c.r) =>
       /\ \A j1, j2 \in Recs :
            ( /\ Under(c.at, j1)
              /\ Under(c.at, j2)
              /\ StepOf(c.at, j1).key \in KeysOf(c.l)
              /\ StepOf(c.at, j2).key \in KeysOf(c.l)
              /\ KeyIndex(c.l, StepOf(c.at, j1).key) < KeyIndex(c.l, StepOf(c.at, j2).key) )
              => j1 < j2
       /\ \A j1, j2 \in Recs :
            ( /\ Under(c.at, j1)
              /\ StepOf(c.at, j1).key \in KeysOf(c.l)
              /\ j2 \in MissingLeftOf(c.at) )
              => j1 < j2
       /\ \A j1, j2 \in Recs :
            ( /\ j1 \in MissingLeftOf(c.at)
              /\ j2 \in MissingLeftOf(c.at)
              /\ KeyIndex(c.r, StepOf(c.at, j1).key) < KeyIndex(c.r, StepOf(c.at, j2).key) )
              => j1 < j2

(***************************************************************************)
(* C7.  Emission order.  A node's value mismatch comes before every line   *)
(* about its descendants; a list's length mismatch comes after the list's  *)
(* value mismatch and before every line about its elements, and the lines  *)
(* about elements follow the index order; the lines about a dict's         *)
(* children follow the left dict's key order, and its "Missing key in      *)
(* left" lines come after all of those, in the right dict's key order.     *)
(***************************************************************************)
C7_EmissionOrder == CallDone => \A n \in Calls : C7_At(calls[n])

\* value mismatch, then a line below a matched key, then a missing-in-left
\* line for a key that the right dict holds first
C7_Witness ==
  /\ CallDone
  /\ BothDicts(left, right)
  /\ Len(out) = 3
  /\ out[1].kind = Difference
  /\ outpos[1] = <<>>
  /\ out[2].kind = Difference
  /\ Len(outpos[2]) = 1
  /\ out[3].kind = MissingLeft
  /\ out[3].path = KeyPath(calls[1].path, right.keys[1])

\* every call but the outermost is on an entry of its caller's dicts or an
\* element of its caller's lists
C8_StrictDescent ==
  \A n \in 2..Len(stack) :
    /\ stack[n].l \in Range(stack[n - 1].l.kids)
    /\ stack[n].r \in Range(stack[n - 1].r.kids)

\* the call stack is never deeper than the shallower of the two values
C8_DepthBound == pc = "compare" => Len(stack) <= Min(Depth(left), Depth(right))

\* no position is visited twice
C8_OncePerPosition == \A m, n \in Calls : calls[m].at = calls[n].at => m = n

(***************************************************************************)
(* C8.  Termination: the run always ends; every recursive call is made on  *)
(* strict sub-values of the caller's pair, so the recursion is never       *)
(* deeper than the shallower of the two values, and no position is         *)
(* visited twice.                                                          *)
(***************************************************************************)
C8_Termination ==
  /\ [](C8_StrictDescent /\ C8_DepthBound /\ C8_OncePerPosition)
  /\ <>Terminated

\* a walk that went two calls deep has ended
C8_Witness ==
  /\ CallDone
  /\ Min(Depth(left), Depth(right)) = 3
  /\ \E n \in Calls : Len(calls[n].at) = 2

(***************************************************************************)
(* C9.  An empty report means equal: compare(p, l, r) prints nothing if    *)
(* and only if l == r; if l != r the first line is the value mismatch at   *)
(* p; and each missing-key or length-mismatch line of a node comes after   *)
(* a value mismatch at that node's path.                                   *)
(***************************************************************************)
C9_EmptyMeansEqual ==
  /\ CallDone =>
       /\ (out = <<>>) <=> PyEq(left, right)
       /\ ~PyEq(left, right) => (out[1] = Rec(Difference, calls[1].path) /\ outpos[1] = <<>>)
  /\ entry = "compare" =>
       \A j \in Recs :
         /\ out[j].kind \in {MissingRight, MissingLeft} =>
              \E i \in 1..(j - 1), n \in Calls :
                /\ calls[n].at = Front(outpos[j])
                /\ out[i] = Rec(Difference, calls[n].path)
                /\ outpos[i] = calls[n].at
         /\ out[j].kind = LengthMismatch =>
              \E i \in 1..(j - 1) :
                /\ out[i] = Rec(Difference, out[j].path)
                /\ outpos[i] = outpos[j]

\* dicts that differ only by a key of the right one: the missing-key line
\* follows the value mismatch of the dict
C9_Witness ==
  /\ CallDone
  /\ ~PyEq(left, right)
  /\ Len(out) = 2
  /\ out[1].kind = Difference
  /\ out[2].kind = MissingLeft

\* every position a path was given to, with the path
Named ==
  {<<calls[n].at, calls[n].path>> : n \in Calls} \cup {<<outpos[j], out[j].path>> : j \in Recs}

\* the keys of Keys that hold a "." or a "["
SeparatorKeys == {"a.a"}

RECURSIVE AllKeys(_)
AllKeys(v) == KeysOf(v) \cup UNION {AllKeys(v.kids[i]) : i \in 1..Len(v.kids)}

(***************************************************************************)
(* C10 as stated.  Within one run two different positions never get the    *)
(* same path string, whatever the keys.                                    *)
(***************************************************************************)
C10_PathIdentifiesPosition ==
  entry = "compare" => \A a, b \in Named : a[2] = b[2] => a[1] = b[1]

(***************************************************************************)
(* C10 as amended.  Within one run two different positions never get the   *)
(* same path string, provided no key of either value holds a "." or a "[". *)
(***************************************************************************)
C10_PathIdentifiesPlainKeys ==
  (entry = "compare" /\ (AllKeys(left) \cup AllKeys(right)) \cap SeparatorKeys = {}) =>
    \A a, b \in Named : a[2] = b[2] => a[1] = b[1]

\* a walk through plain keys and indices that named four positions or more
C10_Witness ==
  /\ CallDone
  /\ (AllKeys(left) \cup AllKeys(right)) \cap SeparatorKeys = {}
  /\ AllKeys(left) # {}
  /\ Cardinality({a[1] : a \in Named}) >= 3
  /\ \E a \in Named : Len(a[1]) = 2

====
